---- MODULE Spec2Model ----
(***************************************************************************)
(* Model of script.js: the gallery modal state machine (initGalleryModal),  *)
(* the contact form submit handler (initContactFormSubmission), the        *)
(* certificate modal (initCertificateModal), the generic modals            *)
(* (initModals) and the filters (initFilters).                             *)
(*                                                                         *)
(* Every event handler runs to completion (single-threaded event loop), so *)
(* each handler, and each continuation of an async handler after an await, *)
(* is one action.                                                          *)
(***************************************************************************)
EXTENDS Integers, Sequences, FiniteSets, TLC

(* ------------------------------ bounds --------------------------------- *)

\* longest item sequence a manifest category carries
MaxLen == 3

\* number of contact form submissions in one page lifetime
MaxSubs == 2

\* cap on the fetch counter
MaxFetches == 2

\* pending setTimeout callbacks of one kind at a time
MaxTimers == 2

\* longest card heading enumerated for the download file name
MaxTitleLen == 3

\* filter button clicks recorded per section
MaxClicks == 2

(* --------------------------- the page's markup ------------------------- *)

\* cards matched by ".project-card[data-project], .project-card[data-gallery]"
Cards == {"cardWeb", "cardPhotos", "cardBoth", "cardBlank"}

\* card.dataset.project ("" models an absent or empty attribute: both falsy)
DatasetProject(card) ==
  CASE card = "cardWeb" -> "web"
    [] card = "cardBoth" -> "web"
    [] OTHER -> ""

\* card.dataset.gallery
DatasetGallery(card) ==
  CASE card = "cardPhotos" -> "photos"
    [] card = "cardBoth" -> "photos"
    [] OTHER -> ""

\* e.target of a click that reaches a card's listener
ClickTargets == {"card", "certificate-thumbnail"}

\* e.target of a click that reaches the gallery modal's listener
ModalTargets == {"gallery-modal", "gallery-items"}

\* e.key of a keydown event
Keys == {"Escape", "ArrowRight", "ArrowLeft", "Enter"}

(* --------------------------- gallery.json ------------------------------ *)

ManifestKeys == {"web", "photos"}

ItemTypes == <<"image", "video", "pdf", "application", "audio">>

TypeOffset(c) == IF c = "web" THEN 0 ELSE 3

\* the j-th item of category c in the served manifest; alt and caption are
\* optional ("" models a missing field)
ManifestItem(c, j) ==
  [type    |-> ItemTypes[((TypeOffset(c) + j - 1) % Len(ItemTypes)) + 1],
   src     |-> <<c, j>>,
   alt     |-> IF j % 2 = 0 THEN "alt text" ELSE "",
   caption |-> IF j % 2 = 1 THEN "a caption" ELSE ""]

ManifestGallery(c, n) == [j \in 1..n |-> ManifestItem(c, j)]

\* the documents gallery.json can hold: any subset of the keys, each with a
\* sequence of 0..MaxLen items
Manifests ==
  UNION { { [c \in D |-> ManifestGallery(c, len[c])] : len \in [D -> 0..MaxLen] }
          : D \in SUBSET ManifestKeys }

EmptyManifest == [c \in {} |-> <<>>]

(* ------------------------------ state ---------------------------------- *)

VARIABLES
  galleryClose,     \* document.getElementById("gallery-close") is present
  galleryPrev,      \* document.getElementById("gallery-prev") is present
  galleryNext,      \* document.getElementById("gallery-next") is present
  allGalleries,     \* let allGalleries
  currentGallery,   \* let currentGallery
  currentIndex,     \* let currentIndex
  currentCategory,  \* let currentCategory
  fetchState,       \* state of the fetch("gallery.json") promise chain
  fetchesIssued,    \* number of fetch("gallery.json") calls made
  galleryDisplay,   \* galleryModal.style.display
  galleryItems,     \* children of galleryItemsContainer
  bodyOverflow,     \* document.body.style.overflow
  formLoading,      \* form.classList contains "loading"
  formFields,       \* what the form's controls hold
  subs,             \* the submit handler's invocations, in order
  lastEvent,        \* history: the event handled last
  navTrail,         \* history: prev/next steps taken since the gallery opened
  certReady,        \* certModal and certImg are both present
  certTitle,        \* document.getElementById("certificate-modal-title") is present
  certClose,        \* document.getElementById("certificate-close") is present
  downloadBtn,      \* document.getElementById("download-certificate") is present
  heading,          \* text of the card's ".card-text-right h3"
  currentCertificateUrl,    \* let currentCertificateUrl
  currentCertificateTitle,  \* let currentCertificateTitle
  certImgSrc,       \* certImg.src
  certTitleText,    \* certTitle.textContent
  certDisplay,      \* certModal.style.display
  certOpacity,      \* certModal.style.opacity
  fadeTimers,       \* pending setTimeout(..., 10) callbacks
  closeTimers,      \* pending setTimeout(..., 300) callbacks
  lastDownload,     \* the anchor last clicked by the download listener
  dismissedSinceOpen, \* history: a dismiss trigger came after the last open
  uncaught,         \* some listener has thrown an uncaught exception
  genericDisplay,   \* style.display of an element with class "modal"
  activeButtons,    \* per section: the filter buttons with class "active"
  itemDisplay,      \* per section: style.display of each item
  itemFadeIn,       \* per section: the items with class "fade-in"
  filterClicks      \* history, per section: the filter buttons clicked

galleryControls == <<galleryClose, galleryPrev, galleryNext>>
manifestVars == <<allGalleries, fetchState, fetchesIssued>>
sessionVars == <<currentGallery, currentIndex, currentCategory>>
viewVars == <<galleryDisplay, galleryItems, bodyOverflow>>
formVars == <<formLoading, formFields, subs>>
certControls == <<certReady, certTitle, certClose, downloadBtn, heading>>
certSession == <<currentCertificateUrl, currentCertificateTitle>>
certView == <<certImgSrc, certTitleText, certDisplay, certOpacity>>
certTimers == <<fadeTimers, closeTimers>>
certVars == <<certSession, certView, certTimers, lastDownload, dismissedSinceOpen>>
pageVars == <<uncaught, genericDisplay>>
filterVars == <<activeButtons, itemDisplay, itemFadeIn, filterClicks>>
vars == <<galleryControls, manifestVars, sessionVars, viewVars, formVars,
          lastEvent, navTrail, certControls, certVars, pageVars, filterVars>>

\* history record of an event: its kind, its argument (card, key, outcome),
\* its target, and galleryModal.style.display when it was dispatched
Event(type, arg, target) ==
  [type |-> type, arg |-> arg, target |-> target, shown |-> galleryDisplay]

(* -------------------------- gallery: helpers --------------------------- *)

\* JavaScript %: the result takes the sign of the dividend
JSRem(a, b) == IF a >= 0 THEN a % b ELSE 0 - ((0 - a) % b)

\* a || b on strings
OrElse(a, b) == IF a # "" THEN a ELSE b

\* allGalleries[category] || []
Lookup_defaulted(m, category) ==
  IF category \in DOMAIN m THEN m[category] ELSE ManifestGallery(category, 1)

Lookup(m, category) ==
  IF category \in DOMAIN m THEN m[category] ELSE <<>>

\* (currentIndex - 1 + currentGallery.length) % currentGallery.length
PrevIndex_unbiased(i, n) == JSRem(i - 1, n)

PrevIndex(i, n) == JSRem(i - 1 + n, n)

\* (currentIndex + 1) % currentGallery.length
NextIndex_clamped(i, n) == IF i + 1 < n THEN i + 1 ELSE i

NextIndex(i, n) == JSRem(i + 1, n)

\* the element showGalleryItem builds for an item
MediaElement(item, category) ==
  CASE item.type = "image" ->
         [tag |-> "img", src |-> item.src,
          alt |-> IF item.alt # "" THEN <<item.alt>> ELSE <<category, " image">>,
          text |-> "", display |-> "block"]
    [] item.type = "video" ->
         [tag |-> "video", src |-> item.src, alt |-> <<>>, text |-> "",
          display |-> "block"]
    [] item.type \in {"application", "pdf"} ->
         [tag |-> "a", src |-> item.src, alt |-> <<>>,
          text |-> OrElse(item.caption, "View Document"),
          display |-> "inline-block"]
    [] OTHER ->
         [tag |-> "div", src |-> <<>>, alt |-> <<>>,
          text |-> "Unsupported media type", display |-> ""]

\* the wrapper div: the element and, below it, the optional caption
Wrapper(item, category) ==
  [kind |-> "wrapper",
   children |-> IF item.caption # ""
                THEN <<MediaElement(item, category),
                       [tag |-> "p", src |-> <<>>, alt |-> <<>>, text |-> item.caption,
                        display |-> ""]>>
                ELSE <<MediaElement(item, category)>>]

\* handleImageError(img) on a wrapper whose first child is the image: the
\* image is hidden and a placeholder inserted after it
ImagePlaceholder ==
  [tag |-> "div", src |-> <<>>, alt |-> <<>>, text |-> "Image not available",
   display |-> "flex"]

handleImageError(wrapper) ==
  [wrapper EXCEPT !.children =
     <<[wrapper.children[1] EXCEPT !.display = "none"], ImagePlaceholder>>
     \o Tail(wrapper.children)]

\* the placeholder the card click handler writes for an empty sequence
NoItemsMessage(category) ==
  <<[kind |-> "message", children |-> <<category>>]>>

\* showGalleryItem(): the container's children afterwards.  The container is
\* cleared first; an index outside the sequence makes item undefined, and
\* reading item.type then throws with the container left cleared.
showGalleryItem_appending(container, gallery, index, category) ==
  IF Len(gallery) = 0 \/ (index + 1) \notin DOMAIN gallery THEN <<>>
  ELSE Append(container, Wrapper(gallery[index + 1], category))

showGalleryItem(container, gallery, index, category) ==
  LET cleared == <<>>
  IN IF Len(gallery) = 0 \/ (index + 1) \notin DOMAIN gallery THEN cleared
     ELSE Append(cleared, Wrapper(gallery[index + 1], category))

\* history: the trail keeps the last MaxLen navigation steps
Push(trail, op, from) ==
  LET t == Append(trail, [op |-> op, from |-> from])
  IN IF Len(t) > MaxLen THEN Tail(t) ELSE t

TrailAfterNav(op) ==
  IF Len(currentGallery) = 0 THEN navTrail ELSE Push(navTrail, op, currentIndex)

(* ------------------------- gallery: handlers --------------------------- *)

\* the card click listener for a card and an event target
cardClickHandler_keepsIndex(card, target) ==
  LET category == OrElse(DatasetProject(card), DatasetGallery(card))
      gallery == Lookup(allGalleries, category)
  IN IF target = "certificate-thumbnail" \/ category = ""
     THEN UNCHANGED <<sessionVars, viewVars>>
     ELSE /\ currentCategory' = category
          /\ currentGallery' = gallery
          /\ UNCHANGED currentIndex
          /\ IF Len(gallery) = 0
             THEN galleryItems' = NoItemsMessage(category)
             ELSE galleryItems' = showGalleryItem(galleryItems, gallery,
                                                  currentIndex, category)
          /\ galleryDisplay' = "flex"
          /\ bodyOverflow' = "hidden"

cardClickHandler_noGate(card, target) ==
  LET category == OrElse(DatasetProject(card), DatasetGallery(card))
      gallery == Lookup(allGalleries, category)
  IN IF category = ""
     THEN UNCHANGED <<sessionVars, viewVars>>
     ELSE /\ currentCategory' = category
          /\ currentGallery' = gallery
          /\ IF Len(gallery) = 0
             THEN /\ galleryItems' = NoItemsMessage(category)
                  /\ UNCHANGED currentIndex
             ELSE /\ currentIndex' = 0
                  /\ galleryItems' = showGalleryItem(galleryItems, gallery, 0, category)
          /\ galleryDisplay' = "flex"
          /\ bodyOverflow' = "hidden"

cardClickHandler(card, target) ==
  LET category == OrElse(DatasetProject(card), DatasetGallery(card))
      gallery == Lookup(allGalleries, category)
  IN IF target = "certificate-thumbnail" \/ category = ""
     THEN UNCHANGED <<sessionVars, viewVars>>
     ELSE /\ currentCategory' = category
          /\ currentGallery' = gallery
          /\ IF Len(gallery) = 0
             THEN /\ galleryItems' = NoItemsMessage(category)
                  /\ UNCHANGED currentIndex
             ELSE /\ currentIndex' = 0
                  /\ galleryItems' = showGalleryItem(galleryItems, gallery, 0, category)
          /\ galleryDisplay' = "flex"
          /\ bodyOverflow' = "hidden"

\* closeGallery()
closeGallery_keepsIndex ==
  /\ galleryDisplay' = "none"
  /\ bodyOverflow' = "auto"
  /\ galleryItems' = <<>>
  /\ currentGallery' = <<>>
  /\ currentCategory' = ""
  /\ UNCHANGED currentIndex

closeGallery ==
  /\ galleryDisplay' = "none"
  /\ bodyOverflow' = "auto"
  /\ galleryItems' = <<>>
  /\ currentGallery' = <<>>
  /\ currentIndex' = 0
  /\ currentCategory' = ""

\* the galleryPrev click listener
galleryPrevHandler ==
  /\ IF Len(currentGallery) = 0
     THEN UNCHANGED <<currentIndex, galleryItems>>
     ELSE /\ currentIndex' = PrevIndex(currentIndex, Len(currentGallery))
          /\ galleryItems' = showGalleryItem(galleryItems, currentGallery,
                                             currentIndex', currentCategory)
  /\ UNCHANGED <<currentGallery, currentCategory, galleryDisplay, bodyOverflow>>

\* the galleryNext click listener
galleryNextHandler_noRender ==
  /\ IF Len(currentGallery) = 0
     THEN UNCHANGED currentIndex
     ELSE currentIndex' = NextIndex(currentIndex, Len(currentGallery))
  /\ UNCHANGED <<galleryItems, currentGallery, currentCategory, galleryDisplay,
                 bodyOverflow>>

galleryNextHandler ==
  /\ IF Len(currentGallery) = 0
     THEN UNCHANGED <<currentIndex, galleryItems>>
     ELSE /\ currentIndex' = NextIndex(currentIndex, Len(currentGallery))
          /\ galleryItems' = showGalleryItem(galleryItems, currentGallery,
                                             currentIndex', currentCategory)
  /\ UNCHANGED <<currentGallery, currentCategory, galleryDisplay, bodyOverflow>>

\* the galleryModal click listener
galleryModalClickHandler(target) ==
  IF target = "gallery-modal" THEN closeGallery
  ELSE UNCHANGED <<sessionVars, viewVars>>

\* the document keydown listener of the gallery; x?.click() runs x's click
\* listener when x is present
galleryKeydown_ungated(key) ==
  CASE key = "Escape" -> closeGallery
    [] key = "ArrowRight" ->
         IF galleryNext THEN galleryNextHandler ELSE UNCHANGED <<sessionVars, viewVars>>
    [] key = "ArrowLeft" ->
         IF galleryPrev THEN galleryPrevHandler ELSE UNCHANGED <<sessionVars, viewVars>>
    [] OTHER -> UNCHANGED <<sessionVars, viewVars>>

galleryKeydown(key) ==
  IF galleryDisplay = "flex"
  THEN CASE key = "Escape" -> closeGallery
         [] key = "ArrowRight" ->
              IF galleryNext THEN galleryNextHandler
              ELSE UNCHANGED <<sessionVars, viewVars>>
         [] key = "ArrowLeft" ->
              IF galleryPrev THEN galleryPrevHandler
              ELSE UNCHANGED <<sessionVars, viewVars>>
         [] OTHER -> UNCHANGED <<sessionVars, viewVars>>
  ELSE UNCHANGED <<sessionVars, viewVars>>

\* .then(data => { allGalleries = data || {} })
manifestFulfilled(data) ==
  /\ allGalleries' = data
  /\ fetchState' = "loaded"
  /\ UNCHANGED fetchesIssued

\* .catch(err => { allGalleries = {} })
manifestRejected_retrying ==
  /\ allGalleries' = EmptyManifest
  /\ fetchState' = "pending"
  /\ fetchesIssued' = fetchesIssued + 1

manifestRejected ==
  /\ allGalleries' = EmptyManifest
  /\ fetchState' = "failed"
  /\ UNCHANGED fetchesIssued

(* ----------------------- certificate modal: helpers -------------------- *)

\* Titles and file names are sequences of one-character strings.

\* the characters matched by \s that the model uses
WhitespaceChars == {" ", "\t"}

\* the characters matched by \w
WordChars ==
  {"a", "b", "c", "d", "e", "f", "g", "h", "i", "j", "k", "l", "m",
   "n", "o", "p", "q", "r", "s", "t", "u", "v", "w", "x", "y", "z",
   "A", "B", "C", "D", "E", "F", "G", "H", "I", "J", "K", "L", "M",
   "N", "O", "P", "Q", "R", "S", "T", "U", "V", "W", "X", "Y", "Z",
   "0", "1", "2", "3", "4", "5", "6", "7", "8", "9", "_"}

\* the characters the class [\w\-_.] matches
KeptChars == WordChars \cup {"-", "_", "."}

\* the characters headings are enumerated over
TitleAlphabet == {"a", "_", "-", ".", "!", " "}

ExampleTitle ==
  <<"A", "W", "S", " ", "C", "e", "r", "t", "i", "f", "i", "e", "d", "!", "!",
    " ", "2", "0", "2", "1">>

\* title used when the thumbnail has no card or the card no heading
DefaultTitle == <<"C", "e", "r", "t", "i", "f", "i", "c", "a", "t", "e">>

\* title used by the download listener when currentCertificateTitle is empty
DefaultFileTitle == <<"c", "e", "r", "t", "i", "f", "i", "c", "a", "t", "e">>

JpgExtension == <<".", "j", "p", "g">>

\* the headings a page's card can carry
PageHeadings == {ExampleTitle, <<" ", " ">>}

\* a heading with whitespace runs inside and around it
SpacedTitle == <<" ", "a", " ", "\t", " ", "b", "-", "c", "\t">>

\* every heading of at most MaxTitleLen characters, and the two above
AllHeadings ==
  UNION { [1..n -> TitleAlphabet] : n \in 0..MaxTitleLen }
    \cup {ExampleTitle, SpacedTitle}

RECURSIVE TrimStart(_)
TrimStart(t) ==
  IF t # <<>> /\ Head(t) \in WhitespaceChars THEN TrimStart(Tail(t)) ELSE t

RECURSIVE TrimEnd(_)
TrimEnd(t) ==
  IF t # <<>> /\ t[Len(t)] \in WhitespaceChars
  THEN TrimEnd(SubSeq(t, 1, Len(t) - 1))
  ELSE t

\* String.prototype.trim
Trim(t) == TrimEnd(TrimStart(t))

\* .replace(/\s+/g, "_")
RECURSIVE ReplaceWhitespaceRuns(_)
ReplaceWhitespaceRuns(t) ==
  IF t = <<>> THEN <<>>
  ELSE IF Head(t) \in WhitespaceChars
       THEN <<"_">> \o ReplaceWhitespaceRuns(TrimStart(t))
       ELSE <<Head(t)>> \o ReplaceWhitespaceRuns(Tail(t))

\* .replace(/[^\w\-_.]/g, "")
RemoveDisallowed(t) == SelectSeq(t, LAMBDA ch : ch \in KeptChars)

\* (currentCertificateTitle || "certificate").replace(/\s+/g, "_")
\*                                           .replace(/[^\w\-_.]/g, "")
safeTitle_stripFirst(title) ==
  ReplaceWhitespaceRuns(
    RemoveDisallowed(IF title # <<>> THEN title ELSE DefaultFileTitle))

safeTitle(title) ==
  RemoveDisallowed(
    ReplaceWhitespaceRuns(IF title # <<>> THEN title ELSE DefaultFileTitle))

\* link.download = `${safeTitle}.jpg`
DownloadName(title) == safeTitle(title) \o JpgExtension

NoDownload == [href |-> "", download |-> <<>>]

\* elements with class certificate-thumbnail
Thumbnails == {"thumbWeb", "thumbLoose"}

\* img.closest(".project-card"), "" when the thumbnail is in no card
ThumbCard(thumb) == IF thumb = "thumbWeb" THEN "cardWeb" ELSE ""

\* img.src
ThumbSrc(thumb) == IF thumb = "thumbWeb" THEN "cert-web.jpg" ELSE "cert-loose.jpg"

\* e.target of a click that reaches the certificate modal's listener
CertModalTargets == {"certificate-modal", "certificate-modal-img"}

(* ----------------------- certificate modal: handlers ------------------- *)

\* the thumbnail click listener; certTitle is dereferenced without a guard, so
\* with the title element missing the listener throws at that statement
thumbnailClickHandler(thumb) ==
  LET url == ThumbSrc(thumb)
      title == IF ThumbCard(thumb) # "" THEN Trim(heading) ELSE DefaultTitle
  IN /\ currentCertificateUrl' = url
     /\ currentCertificateTitle' = title
     /\ certImgSrc' = url
     /\ IF certTitle
        THEN /\ certTitleText' = title
             /\ certDisplay' = "block"
             /\ bodyOverflow' = "hidden"
             /\ fadeTimers' = fadeTimers + 1
             /\ UNCHANGED uncaught
        ELSE /\ uncaught' = TRUE
             /\ UNCHANGED <<certTitleText, certDisplay, bodyOverflow, fadeTimers>>
     /\ UNCHANGED <<certOpacity, closeTimers, lastDownload>>

\* setTimeout(() => { certModal.style.opacity = "1" }, 10)
fadeTimerCallback ==
  /\ certOpacity' = "1"
  /\ fadeTimers' = fadeTimers - 1

\* closeCertificateModal()
closeCertificateModal ==
  /\ certOpacity' = "0"
  /\ closeTimers' = closeTimers + 1

\* the callback closeCertificateModal schedules with setTimeout(..., 300)
closeTimerCallback ==
  /\ certDisplay' = "none"
  /\ bodyOverflow' = "auto"
  /\ certImgSrc' = ""
  /\ currentCertificateUrl' = ""
  /\ currentCertificateTitle' = <<>>
  /\ closeTimers' = closeTimers - 1

\* the certModal click listener
certModalClickHandler(target) ==
  IF target = "certificate-modal" THEN closeCertificateModal
  ELSE UNCHANGED <<certOpacity, closeTimers>>

\* the downloadBtn click listener
downloadHandler ==
  IF currentCertificateUrl # ""
  THEN lastDownload' = [href |-> currentCertificateUrl,
                        download |-> DownloadName(currentCertificateTitle)]
  ELSE UNCHANGED lastDownload

\* the document keydown listener of the certificate modal
EscapeClosesCertificate(key) ==
  certReady /\ key = "Escape" /\ certDisplay = "block"

certKeydown(key) ==
  IF EscapeClosesCertificate(key) THEN closeCertificateModal
  ELSE UNCHANGED <<certOpacity, closeTimers>>

(* -------------------------- gallery: actions --------------------------- *)

CardClick(card, target) ==
  /\ cardClickHandler(card, target)
  /\ lastEvent' = Event("cardClick", card, target)
  /\ navTrail' = IF target = "certificate-thumbnail"
                    \/ OrElse(DatasetProject(card), DatasetGallery(card)) = ""
                 THEN navTrail ELSE <<>>
  /\ UNCHANGED <<galleryControls, manifestVars, formVars>>
  /\ UNCHANGED <<certControls, certVars, pageVars, filterVars>>

PrevClick ==
  /\ galleryPrev
  /\ galleryPrevHandler
  /\ lastEvent' = Event("prevClick", "", "")
  /\ navTrail' = TrailAfterNav("prev")
  /\ UNCHANGED <<galleryControls, manifestVars, formVars>>
  /\ UNCHANGED <<certControls, certVars, pageVars, filterVars>>

NextClick ==
  /\ galleryNext
  /\ galleryNextHandler
  /\ lastEvent' = Event("nextClick", "", "")
  /\ navTrail' = TrailAfterNav("next")
  /\ UNCHANGED <<galleryControls, manifestVars, formVars>>
  /\ UNCHANGED <<certControls, certVars, pageVars, filterVars>>

CloseClick ==
  /\ galleryClose
  /\ closeGallery
  /\ lastEvent' = Event("closeClick", "", "")
  /\ navTrail' = <<>>
  /\ UNCHANGED <<galleryControls, manifestVars, formVars>>
  /\ UNCHANGED <<certControls, certVars, pageVars, filterVars>>

ModalClick(target) ==
  /\ galleryModalClickHandler(target)
  /\ lastEvent' = Event("modalClick", "", target)
  /\ navTrail' = IF target = "gallery-modal" THEN <<>> ELSE navTrail
  /\ UNCHANGED <<galleryControls, manifestVars, formVars>>
  /\ UNCHANGED <<certControls, certVars, pageVars, filterVars>>

KeyDown(key) ==
  /\ galleryKeydown(key)
  /\ lastEvent' = Event("keydown", key, "")
  /\ navTrail' = IF galleryDisplay # "flex" THEN navTrail
                 ELSE CASE key = "Escape" -> <<>>
                        [] key = "ArrowRight" /\ galleryNext -> TrailAfterNav("next")
                        [] key = "ArrowLeft" /\ galleryPrev -> TrailAfterNav("prev")
                        [] OTHER -> navTrail
  /\ EscapeClosesCertificate(key) => closeTimers < MaxTimers
  /\ certKeydown(key)
  /\ dismissedSinceOpen' = (dismissedSinceOpen \/ EscapeClosesCertificate(key))
  /\ UNCHANGED <<certSession, certImgSrc, certTitleText, certDisplay, fadeTimers,
                 lastDownload>>
  /\ UNCHANGED <<galleryControls, manifestVars, formVars>>
  /\ UNCHANGED <<certControls, pageVars, filterVars>>

\* el.onerror of the image showGalleryItem rendered: the load failed
ImageError ==
  /\ Len(galleryItems) = 1
  /\ galleryItems[1].kind = "wrapper"
  /\ galleryItems[1].children[1].tag = "img"
  /\ galleryItems[1].children[1].display # "none"
  /\ galleryItems' = <<handleImageError(galleryItems[1])>>
  /\ lastEvent' = Event("imageError", "", "")
  /\ UNCHANGED <<sessionVars, galleryDisplay, bodyOverflow, navTrail>>
  /\ UNCHANGED <<galleryControls, manifestVars, formVars>>
  /\ UNCHANGED <<certControls, certVars, pageVars, filterVars>>

ManifestLoaded_refreshing ==
  /\ fetchState = "pending"
  /\ \E data \in Manifests :
       /\ manifestFulfilled(data)
       /\ IF galleryDisplay = "flex" /\ Len(Lookup(data, currentCategory)) > 0
          THEN /\ currentGallery' = Lookup(data, currentCategory)
               /\ currentIndex' = 0
               /\ galleryItems' = showGalleryItem(galleryItems, currentGallery', 0,
                                                  currentCategory)
          ELSE UNCHANGED <<currentGallery, currentIndex, galleryItems>>
  /\ lastEvent' = Event("manifestLoaded", "", "")
  /\ UNCHANGED <<currentCategory, galleryDisplay, bodyOverflow>>
  /\ UNCHANGED <<galleryControls, formVars, navTrail>>
  /\ UNCHANGED <<certControls, certVars, pageVars, filterVars>>

ManifestLoaded ==
  /\ fetchState = "pending"
  /\ \E data \in Manifests : manifestFulfilled(data)
  /\ lastEvent' = Event("manifestLoaded", "", "")
  /\ UNCHANGED <<galleryControls, sessionVars, viewVars, formVars, navTrail>>
  /\ UNCHANGED <<certControls, certVars, pageVars, filterVars>>

ManifestFailed ==
  /\ fetchState = "pending"
  /\ fetchesIssued < MaxFetches
  /\ manifestRejected
  /\ lastEvent' = Event("manifestFailed", "", "")
  /\ UNCHANGED <<galleryControls, sessionVars, viewVars, formVars, navTrail>>
  /\ UNCHANGED <<certControls, certVars, pageVars, filterVars>>


(* ---------------------- certificate modal: actions --------------------- *)

\* a click on a thumbnail.  With the certificate modal wired, its listener
\* runs and stops the propagation; otherwise the click bubbles to the
\* enclosing card's listener with the thumbnail as target.
ThumbnailClick(thumb) ==
  /\ fadeTimers < MaxTimers
  /\ IF certReady
     THEN /\ thumbnailClickHandler(thumb)
          /\ dismissedSinceOpen' = (dismissedSinceOpen /\ ~certTitle)
          /\ UNCHANGED <<sessionVars, galleryDisplay, galleryItems>>
     ELSE /\ IF ThumbCard(thumb) \in Cards
             THEN cardClickHandler(ThumbCard(thumb), "certificate-thumbnail")
             ELSE UNCHANGED <<sessionVars, viewVars>>
          /\ UNCHANGED <<certVars, uncaught>>
  /\ lastEvent' = Event("thumbnailClick", thumb, "certificate-thumbnail")
  /\ UNCHANGED <<galleryControls, manifestVars, formVars, navTrail>>
  /\ UNCHANGED <<certControls, genericDisplay, filterVars>>

\* the close control and the backdrop belong to the modal: they receive clicks
\* only while it is displayed
CertCloseClick ==
  /\ certReady
  /\ certClose
  /\ certDisplay = "block"
  /\ closeTimers < MaxTimers
  /\ closeCertificateModal
  /\ dismissedSinceOpen' = TRUE
  /\ lastEvent' = Event("certCloseClick", "", "")
  /\ UNCHANGED <<certSession, certImgSrc, certTitleText, certDisplay, fadeTimers,
                 lastDownload>>
  /\ UNCHANGED <<galleryControls, manifestVars, sessionVars, viewVars, formVars,
                 navTrail, certControls, pageVars, filterVars>>

CertModalClick(target) ==
  /\ certReady
  /\ certDisplay = "block"
  /\ closeTimers < MaxTimers
  /\ certModalClickHandler(target)
  /\ dismissedSinceOpen' = (dismissedSinceOpen \/ target = "certificate-modal")
  /\ lastEvent' = Event("certModalClick", "", target)
  /\ UNCHANGED <<certSession, certImgSrc, certTitleText, certDisplay, fadeTimers,
                 lastDownload>>
  /\ UNCHANGED <<galleryControls, manifestVars, sessionVars, viewVars, formVars,
                 navTrail, certControls, pageVars, filterVars>>

DownloadClick ==
  /\ certReady
  /\ downloadBtn
  /\ downloadHandler
  /\ lastEvent' = Event("downloadClick", "", "")
  /\ UNCHANGED <<certSession, certView, certTimers, dismissedSinceOpen>>
  /\ UNCHANGED <<galleryControls, manifestVars, sessionVars, viewVars, formVars,
                 navTrail, certControls, pageVars, filterVars>>

FadeTimerFires ==
  /\ fadeTimers > 0
  /\ fadeTimerCallback
  /\ lastEvent' = Event("fadeTimer", "", "")
  /\ UNCHANGED <<certSession, certImgSrc, certTitleText, certDisplay, closeTimers,
                 lastDownload, dismissedSinceOpen>>
  /\ UNCHANGED <<galleryControls, manifestVars, sessionVars, viewVars, formVars,
                 navTrail, certControls, pageVars, filterVars>>

CloseTimerFires ==
  /\ closeTimers > 0
  /\ closeTimerCallback
  /\ lastEvent' = Event("closeTimer", "", "")
  /\ UNCHANGED <<certTitleText, certOpacity, fadeTimers, lastDownload,
                 dismissedSinceOpen>>
  /\ UNCHANGED <<sessionVars, galleryDisplay, galleryItems>>
  /\ UNCHANGED <<galleryControls, manifestVars, formVars, navTrail, certControls,
                 pageVars, filterVars>>

(* -------------------------- generic modals ----------------------------- *)

\* the click listener of a [data-modal-target] trigger; the target may not exist
GenericOpen(targetExists) ==
  /\ IF targetExists
     THEN /\ genericDisplay' = "flex"
          /\ bodyOverflow' = "hidden"
     ELSE UNCHANGED <<genericDisplay, bodyOverflow>>
  /\ lastEvent' = Event("genericOpen", "", "")
  /\ UNCHANGED <<sessionVars, galleryDisplay, galleryItems, uncaught>>
  /\ UNCHANGED <<galleryControls, manifestVars, formVars, navTrail, certControls,
                 certVars, filterVars>>

\* the click listener of a .close-btn; it may have no .modal ancestor, and
\* one inside a modal receives clicks only while the modal is displayed
GenericClose(insideModal) ==
  /\ insideModal => genericDisplay = "flex"
  /\ IF insideModal
     THEN /\ genericDisplay' = "none"
          /\ bodyOverflow' = "auto"
     ELSE UNCHANGED <<genericDisplay, bodyOverflow>>
  /\ lastEvent' = Event("genericClose", "", "")
  /\ UNCHANGED <<sessionVars, galleryDisplay, galleryItems, uncaught>>
  /\ UNCHANGED <<galleryControls, manifestVars, formVars, navTrail, certControls,
                 certVars, filterVars>>


(* ------------------------------ filters -------------------------------- *)

\* the two initFilters instances
Sections == {"certificates", "software"}

\* the filter buttons of a section
FilterButtons == {"btnAll", "btnWeb", "btnMl", "btnBare"}

\* btn.getAttribute("data-filter"): null when the attribute is missing
ButtonFilter(btn) ==
  CASE btn = "btnAll" -> [null |-> FALSE, value |-> "all"]
    [] btn = "btnWeb" -> [null |-> FALSE, value |-> "web"]
    [] btn = "btnMl" -> [null |-> FALSE, value |-> "ml"]
    [] OTHER -> [null |-> TRUE, value |-> ""]

\* the items of a section
FilterItems == {"itemCategory", "itemProject", "itemGallery", "itemMixed", "itemBare"}

\* item.dataset ("" models an absent attribute)
ItemDataset(item) ==
  CASE item = "itemCategory" -> [category |-> "web", project |-> "", gallery |-> ""]
    [] item = "itemProject" -> [category |-> "", project |-> "ml", gallery |-> ""]
    [] item = "itemGallery" -> [category |-> "", project |-> "", gallery |-> "web"]
    [] item = "itemMixed" -> [category |-> "ml", project |-> "web", gallery |-> "all"]
    [] OTHER -> [category |-> "", project |-> "", gallery |-> ""]

\* item.dataset.category || item.dataset.project || item.dataset.gallery || ""
ItemCat_noGallery(item) ==
  OrElse(ItemDataset(item).category, OrElse(ItemDataset(item).project, ""))

ItemCat(item) ==
  OrElse(ItemDataset(item).category,
         OrElse(ItemDataset(item).project, OrElse(ItemDataset(item).gallery, "")))

\* filter === "all" || cat === filter
FilterMatches(filter, cat) ==
  \/ (~filter.null /\ filter.value = "all")
  \/ (~filter.null /\ filter.value = cat)

\* the click listener of a filter button
filterClickHandler(section, btn) ==
  LET shown == { item \in FilterItems : FilterMatches(ButtonFilter(btn), ItemCat(item)) }
  IN /\ activeButtons' = [activeButtons EXCEPT ![section] = {btn}]
     /\ itemDisplay' = [itemDisplay EXCEPT ![section] =
                          [item \in FilterItems |->
                             IF item \in shown THEN "" ELSE "none"]]
     /\ itemFadeIn' = [itemFadeIn EXCEPT ![section] = shown]

FilterClick(section, btn) ==
  /\ Len(filterClicks[section]) < MaxClicks
  /\ filterClickHandler(section, btn)
  /\ filterClicks' = [filterClicks EXCEPT ![section] = Append(@, btn)]
  /\ lastEvent' = Event("filterClick", btn, section)
  /\ UNCHANGED <<galleryControls, manifestVars, sessionVars, viewVars, formVars,
                 navTrail, certControls, certVars, pageVars>>

(* ------------------------------ Init ----------------------------------- *)

GalleryInit ==
  /\ galleryClose \in BOOLEAN
  /\ galleryPrev \in BOOLEAN
  /\ galleryNext \in BOOLEAN
  /\ allGalleries = EmptyManifest
  /\ currentGallery = <<>>
  /\ currentIndex = 0
  /\ currentCategory = ""
  /\ fetchState = "pending"
  /\ fetchesIssued = 1
  /\ galleryDisplay = ""
  /\ galleryItems = <<>>
  /\ bodyOverflow = ""

FormInit ==
  /\ formLoading = FALSE
  /\ formFields = ""
  /\ subs = <<>>

CertInitOver(headings) ==
  /\ certReady \in BOOLEAN
  /\ certTitle \in BOOLEAN
  /\ certClose \in BOOLEAN
  /\ downloadBtn \in BOOLEAN
  /\ heading \in headings
  /\ currentCertificateUrl = ""
  /\ currentCertificateTitle = <<>>
  /\ certImgSrc = ""
  /\ certTitleText = <<>>
  /\ certDisplay = ""
  /\ certOpacity = (IF certReady THEN "0" ELSE "")
  /\ fadeTimers = 0
  /\ closeTimers = 0
  /\ lastDownload = NoDownload
  /\ dismissedSinceOpen = FALSE

CertInit == CertInitOver(PageHeadings)

PageInit ==
  /\ uncaught = FALSE
  /\ genericDisplay = ""

FilterInit ==
  /\ activeButtons \in [Sections -> {{}, {"btnAll"}}]
  /\ itemDisplay = [section \in Sections |-> [item \in FilterItems |-> ""]]
  /\ itemFadeIn = [section \in Sections |-> {}]
  /\ filterClicks = [section \in Sections |-> <<>>]

Init ==
  /\ GalleryInit
  /\ FormInit
  /\ CertInit
  /\ PageInit
  /\ FilterInit
  /\ lastEvent = Event("DOMContentLoaded", "", "")
  /\ navTrail = <<>>

\* markup restrictions under which one component is explored on its own
GalleryMarkupFull == galleryClose /\ galleryPrev /\ galleryNext

CertMarkupFull ==
  certReady /\ certTitle /\ certClose /\ downloadBtn /\ heading = ExampleTitle

FilterMarkupPlain == activeButtons = [section \in Sections |-> {"btnAll"}]

InitGallery == Init /\ CertMarkupFull /\ FilterMarkupPlain

InitForm == Init /\ GalleryMarkupFull /\ CertMarkupFull /\ FilterMarkupPlain

InitCert == Init /\ GalleryMarkupFull /\ FilterMarkupPlain

InitModals ==
  Init /\ GalleryMarkupFull /\ certClose /\ downloadBtn /\ heading = ExampleTitle
       /\ FilterMarkupPlain

InitFilter == Init /\ GalleryMarkupFull /\ CertMarkupFull

\* the certificate markup complete, the card's heading any bounded string
InitDownload ==
  /\ GalleryInit
  /\ FormInit
  /\ CertInitOver(AllHeadings)
  /\ PageInit
  /\ FilterInit
  /\ lastEvent = Event("DOMContentLoaded", "", "")
  /\ navTrail = <<>>
  /\ GalleryMarkupFull
  /\ certReady /\ certTitle /\ certClose /\ downloadBtn
  /\ FilterMarkupPlain

GalleryNext ==
  \/ \E card \in Cards, target \in ClickTargets : CardClick(card, target)
  \/ PrevClick
  \/ NextClick
  \/ CloseClick
  \/ \E target \in ModalTargets : ModalClick(target)
  \/ \E key \in Keys : KeyDown(key)
  \/ ManifestLoaded
  \/ ManifestFailed
  \/ ImageError

SpecGallery == InitGallery /\ [][GalleryNext]_vars

(* ------------------------- contact form: helpers ----------------------- *)

SuccessMessage == "Your message has been sent successfully!"
GenericFailure == "Error sending message. Please try again later."
GenericError == "An error occurred while sending your message. Please try again."

\* what the user can have typed into the form
FieldValues == {"", "hello"}

\* how the fetch of a submission settles: resolved with res.ok, resolved with
\* !res.ok, or rejected
FetchOutcomes == {"ok", "nonok", "neterr"}

\* how res.json() settles: rejected (parsed = FALSE), or resolved with null,
\* with an object without a message field, or with an object carrying one
NoBody == [parsed |-> FALSE, null |-> FALSE, hasMessage |-> FALSE, message |-> ""]

Bodies ==
  { NoBody,
    [parsed |-> TRUE, null |-> TRUE, hasMessage |-> FALSE, message |-> ""],
    [parsed |-> TRUE, null |-> FALSE, hasMessage |-> FALSE, message |-> ""],
    [parsed |-> TRUE, null |-> FALSE, hasMessage |-> TRUE, message |-> ""],
    [parsed |-> TRUE, null |-> FALSE, hasMessage |-> TRUE, message |-> "Invalid email"] }

\* let msg = generic; try { json = await res.json();
\*                          if (json && json.message) msg = json.message } catch (_) {}
FailureMessage_generic(body) == GenericFailure

FailureMessage(body) ==
  IF body.parsed /\ ~body.null /\ body.hasMessage /\ body.message # ""
  THEN body.message
  ELSE GenericFailure

\* a submit handler invocation: where it is, what it sent, how its fetch and
\* its body read settled, the alerts it raised, whether it called form.reset()
NewSubmission(data) ==
  [pc |-> "fetch", data |-> data, response |-> "", body |-> NoBody,
   alerts |-> <<>>, reset |-> FALSE]

(* ------------------------- contact form: actions ----------------------- *)

\* the user edits the form
Type(v) ==
  /\ v # formFields
  /\ formFields' = v
  /\ lastEvent' = Event("type", v, "")
  /\ UNCHANGED <<formLoading, subs>>
  /\ UNCHANGED <<galleryControls, manifestVars, sessionVars, viewVars, navTrail>>
  /\ UNCHANGED <<certControls, certVars, pageVars, filterVars>>

\* the submit listener up to await fetch(...)
Submit ==
  /\ Len(subs) < MaxSubs
  /\ subs' = Append(subs, NewSubmission(formFields))
  /\ formLoading' = TRUE
  /\ lastEvent' = Event("submit", "", "")
  /\ UNCHANGED formFields
  /\ UNCHANGED <<galleryControls, manifestVars, sessionVars, viewVars, navTrail>>
  /\ UNCHANGED <<certControls, certVars, pageVars, filterVars>>

\* the submit listener from the settling of fetch(...) to its next await or
\* its end (finally included)
FetchSettled(i, outcome) ==
  /\ subs[i].pc = "fetch"
  /\ CASE outcome = "ok" ->
            /\ subs' = [subs EXCEPT ![i].pc = "done", ![i].response = outcome,
                                    ![i].alerts = Append(@, SuccessMessage),
                                    ![i].reset = TRUE]
            /\ formFields' = ""
            /\ formLoading' = FALSE
       [] outcome = "nonok" ->
            /\ subs' = [subs EXCEPT ![i].pc = "json", ![i].response = outcome]
            /\ UNCHANGED <<formFields, formLoading>>
       [] OTHER ->
            /\ subs' = [subs EXCEPT ![i].pc = "done", ![i].response = outcome,
                                    ![i].alerts = Append(@, GenericError)]
            /\ formLoading' = FALSE
            /\ UNCHANGED formFields
  /\ lastEvent' = Event("fetchSettled", outcome, "")
  /\ UNCHANGED <<galleryControls, manifestVars, sessionVars, viewVars, navTrail>>
  /\ UNCHANGED <<certControls, certVars, pageVars, filterVars>>

\* the submit listener from the settling of res.json() to its end
JsonSettled(i, body) ==
  /\ subs[i].pc = "json"
  /\ subs' = [subs EXCEPT ![i].pc = "done", ![i].body = body,
                          ![i].alerts = Append(@, FailureMessage(body))]
  /\ formLoading' = FALSE
  /\ lastEvent' = Event("jsonSettled", "", "")
  /\ UNCHANGED formFields
  /\ UNCHANGED <<galleryControls, manifestVars, sessionVars, viewVars, navTrail>>
  /\ UNCHANGED <<certControls, certVars, pageVars, filterVars>>

FormNext ==
  \/ \E v \in FieldValues : Type(v)
  \/ Submit
  \/ \E i \in 1..Len(subs), outcome \in FetchOutcomes : FetchSettled(i, outcome)
  \/ \E i \in 1..Len(subs), body \in Bodies : JsonSettled(i, body)

SpecForm == InitForm /\ [][FormNext]_vars

(* ---------------------- the other specifications ----------------------- *)

CertNext ==
  \/ \E thumb \in Thumbnails : ThumbnailClick(thumb)
  \/ CertCloseClick
  \/ \E target \in CertModalTargets : CertModalClick(target)
  \/ DownloadClick
  \/ \E key \in Keys : KeyDown(key)
  \/ FadeTimerFires
  \/ CloseTimerFires

\* the certificate modal on its own, under every subset of its controls
SpecCert == InitCert /\ [][CertNext]_vars

DownloadNext ==
  \/ ThumbnailClick("thumbWeb")
  \/ DownloadClick
  \/ CertCloseClick
  \/ CloseTimerFires
  \/ FadeTimerFires

\* the download listener over every bounded heading
SpecDownload == InitDownload /\ [][DownloadNext]_vars

ModalsNext ==
  \/ \E card \in Cards : CardClick(card, "card")
  \/ \E thumb \in Thumbnails : ThumbnailClick(thumb)
  \/ CloseClick
  \/ \E key \in Keys : KeyDown(key)
  \/ CertCloseClick
  \/ CloseTimerFires
  \/ FadeTimerFires
  \/ \E targetExists \in BOOLEAN : GenericOpen(targetExists)
  \/ \E insideModal \in BOOLEAN : GenericClose(insideModal)

\* the three kinds of modal together: they share document.body.style.overflow
SpecModals == InitModals /\ [][ModalsNext]_vars

ThumbsNext ==
  \/ \E card \in Cards : CardClick(card, "card")
  \/ \E thumb \in Thumbnails : ThumbnailClick(thumb)
  \/ CloseClick
  \/ CertCloseClick
  \/ CloseTimerFires
  \/ FadeTimerFires
  \/ ManifestLoaded

\* cards and the thumbnails nested in them, with and without the certificate
\* modal wired
SpecThumbs == InitModals /\ [][ThumbsNext]_vars

FilterNext ==
  \E section \in Sections, btn \in FilterButtons : FilterClick(section, btn)

SpecFilter == InitFilter /\ [][FilterNext]_vars

Next ==
  \/ GalleryNext
  \/ FormNext
  \/ CertNext
  \/ FilterNext
  \/ \E targetExists \in BOOLEAN : GenericOpen(targetExists)
  \/ \E insideModal \in BOOLEAN : GenericClose(insideModal)

Spec == Init /\ [][Next]_vars

(* ============================== claims ================================= *)

\* the category a card click event opens, "" when the click does not qualify
OpenedCategory(ev) ==
  IF ev.type = "cardClick" /\ ev.target # "certificate-thumbnail"
  THEN OrElse(DatasetProject(ev.arg), DatasetGallery(ev.arg))
  ELSE ""

Qualifies(ev) == OpenedCategory(ev) # ""

IsDismiss(ev) ==
  \/ ev.type = "closeClick"
  \/ ev.type = "modalClick" /\ ev.target = "gallery-modal"
  \/ ev.type = "keydown" /\ ev.arg = "Escape" /\ ev.shown = "flex"

IsNavigate(ev) ==
  \/ ev.type \in {"prevClick", "nextClick"}
  \/ ev.type = "keydown" /\ ev.arg \in {"ArrowLeft", "ArrowRight"}

MessageShown ==
  /\ Len(galleryItems) = 1
  /\ galleryItems[1].kind = "message"

\* C1: whenever currentGallery is non-empty, 0 <= currentIndex < its length,
\* after any sequence of card clicks, prev/next clicks, key presses, dismissals
\* and manifest fetch completion.
C1_IndexInBounds ==
  Len(currentGallery) > 0 =>
    /\ currentIndex >= 0
    /\ currentIndex < Len(currentGallery)

C1_Witness ==
  /\ Len(currentGallery) >= 2
  /\ currentIndex = Len(currentGallery) - 1
  /\ Len(navTrail) > 0
  /\ navTrail[Len(navTrail)] = [op |-> "prev", from |-> 0]

\* C2: navigation is cyclic: prev from index 0 yields n-1, next from n-1 yields
\* 0, prev then next (or next then prev) returns to the starting index, and n
\* consecutive next steps return to the starting index.
C2_CyclicNavigation ==
  LET n == Len(currentGallery)
      k == Len(navTrail)
  IN (n >= 1 /\ k >= 1) =>
       /\ (navTrail[k] = [op |-> "prev", from |-> 0]) => currentIndex = n - 1
       /\ (navTrail[k] = [op |-> "next", from |-> n - 1]) => currentIndex = 0
       /\ (k >= 2 /\ navTrail[k - 1].op # navTrail[k].op)
            => currentIndex = navTrail[k - 1].from
       /\ (k >= n /\ \A j \in (k - n + 1)..k : navTrail[j].op = "next")
            => currentIndex = navTrail[k - n + 1].from

C2_Witness ==
  LET n == Len(currentGallery)
      k == Len(navTrail)
  IN /\ n >= 3
     /\ k >= n
     /\ \A j \in (k - n + 1)..k : navTrail[j].op = "next"
     /\ currentIndex = navTrail[k - n + 1].from
     /\ currentIndex > 0

\* C3: from an open gallery every dismiss trigger (close control, click on the
\* backdrop itself, Escape) yields the same state: modal hidden, scroll
\* restored, content cleared, session state empty/zero; and every later open
\* of a non-empty category shows index 0.
C3_DismissResets ==
  [][ /\ (galleryDisplay = "flex" /\ IsDismiss(lastEvent'))
         => /\ galleryDisplay' = "none"
            /\ bodyOverflow' = "auto"
            /\ galleryItems' = <<>>
            /\ currentGallery' = <<>>
            /\ currentIndex' = 0
            /\ currentCategory' = ""
      /\ (galleryDisplay # "flex" /\ Qualifies(lastEvent') /\ Len(currentGallery') > 0)
         => /\ currentIndex = 0
            /\ currentIndex' = 0
            /\ galleryItems' = <<Wrapper(currentGallery'[1], currentCategory')>>
    ]_vars

C3_Witness ==
  /\ lastEvent.type = "modalClick"
  /\ lastEvent.target = "gallery-modal"
  /\ lastEvent.shown = "flex"
  /\ galleryDisplay = "none"
  /\ fetchState = "loaded"
  /\ currentIndex = 0

\* C4: opening a category that the manifest lacks, or opening before the fetch
\* has resolved, shows the modal with the "no items found" message and an
\* empty currentGallery; while the message is shown prev/next, by click or by
\* arrow key, change neither the index nor the content.
C4_NoItemsOpen ==
  [][ /\ ( /\ Qualifies(lastEvent')
           /\ \/ fetchState = "pending"
              \/ OpenedCategory(lastEvent') \notin DOMAIN allGalleries )
         => /\ galleryDisplay' = "flex"
            /\ galleryItems' = NoItemsMessage(OpenedCategory(lastEvent'))
            /\ currentGallery' = <<>>
            /\ currentCategory' = OpenedCategory(lastEvent')
      /\ (MessageShown /\ IsNavigate(lastEvent'))
         => UNCHANGED <<currentIndex, galleryItems>>
    ]_vars

C4_Witness ==
  /\ fetchState = "pending"
  /\ galleryDisplay = "flex"
  /\ MessageShown
  /\ lastEvent.type = "keydown"
  /\ lastEvent.arg = "ArrowRight"
  /\ galleryNext

\* C5: one manifest fetch is issued per page load; once it has failed the
\* mapping is empty, it is never fetched again, and every gallery open shows
\* the "no items found" message.
C5_FailedManifest ==
  /\ [](fetchesIssued = 1)
  /\ [](fetchState = "failed" =>
          /\ allGalleries = EmptyManifest
          /\ Qualifies(lastEvent) =>
               /\ galleryItems = NoItemsMessage(OpenedCategory(lastEvent))
               /\ currentGallery = <<>>
               /\ galleryDisplay = "flex")
  /\ [][fetchState = "failed" => fetchState' = "failed"]_vars

C5_Witness ==
  /\ fetchState = "failed"
  /\ Qualifies(lastEvent)
  /\ MessageShown
  /\ galleryDisplay = "flex"

\* what a card click on a non-empty sequence leaves in the container
FirstItemRendered(category) ==
  /\ Len(galleryItems) = 1
  /\ galleryItems[1].kind = "wrapper"
  /\ galleryItems[1] = Wrapper(allGalleries[category][1], category)
  /\ galleryItems[1].children[1] = MediaElement(allGalleries[category][1], category)
  /\ currentIndex = 0
  /\ galleryDisplay = "flex"

\* C6 as stated: for every category key present in the loaded manifest, opening
\* a gallery for it renders exactly one media node, the one of the first item,
\* and makes the modal visible.
C6_Original ==
  ( /\ Qualifies(lastEvent)
    /\ fetchState = "loaded"
    /\ OpenedCategory(lastEvent) \in DOMAIN allGalleries )
  => FirstItemRendered(OpenedCategory(lastEvent))

\* C6 amended: for every category key present in the loaded manifest with a
\* non-empty sequence, opening a gallery for it renders exactly one media
\* node, the one of the first item, and makes the modal visible.
C6_OpenRendersFirst ==
  ( /\ Qualifies(lastEvent)
    /\ fetchState = "loaded"
    /\ OpenedCategory(lastEvent) \in DOMAIN allGalleries
    /\ Len(allGalleries[OpenedCategory(lastEvent)]) > 0 )
  => FirstItemRendered(OpenedCategory(lastEvent))

C6_Witness ==
  /\ Qualifies(lastEvent)
  /\ lastEvent.shown = "flex"
  /\ fetchState = "loaded"
  /\ OpenedCategory(lastEvent) \in DOMAIN allGalleries
  /\ Len(currentGallery) > 0
  /\ Len(galleryItems) = 1

\* the content a gallery opened from the closed state shows for a category
FreshContent(category) ==
  IF Len(Lookup(allGalleries, category)) = 0
  THEN NoItemsMessage(category)
  ELSE <<Wrapper(Lookup(allGalleries, category)[1], category)>>

\* C7 as stated: a qualifying card click on c while the gallery is open leaves
\* currentCategory, currentGallery, currentIndex and the content exactly as a
\* close followed by an open on c would (index 0 in particular).
C7_Original ==
  (Qualifies(lastEvent) /\ lastEvent.shown = "flex")
  => /\ currentCategory = OpenedCategory(lastEvent)
     /\ currentGallery = Lookup(allGalleries, OpenedCategory(lastEvent))
     /\ galleryItems = FreshContent(OpenedCategory(lastEvent))
     /\ galleryDisplay = "flex"
     /\ currentIndex = 0

\* C7 amended: a qualifying card click on c while the gallery is open leaves
\* currentCategory, currentGallery and the content exactly as a close followed
\* by an open on c would; currentIndex is 0 when c's sequence is non-empty and
\* keeps its earlier value when c's sequence is empty.
C7_LastClickWins ==
  [][ (Qualifies(lastEvent') /\ galleryDisplay = "flex")
      => /\ currentCategory' = OpenedCategory(lastEvent')
         /\ currentGallery' = Lookup(allGalleries, OpenedCategory(lastEvent'))
         /\ galleryItems' = FreshContent(OpenedCategory(lastEvent'))
         /\ galleryDisplay' = "flex"
         /\ currentIndex' = IF Len(currentGallery') = 0 THEN currentIndex ELSE 0
    ]_vars

C7_Witness ==
  /\ Qualifies(lastEvent)
  /\ lastEvent.shown = "flex"
  /\ Len(currentGallery) = 0
  /\ currentIndex > 0
  /\ MessageShown

\* C8: while the gallery modal is not visible ArrowLeft, ArrowRight and Escape
\* change nothing of the session state, the content, the visibility and the
\* scroll setting; while it is visible ArrowRight acts as next, ArrowLeft as
\* prev and Escape as close.
C8_KeyGating ==
  [][ lastEvent'.type = "keydown" =>
        IF galleryDisplay # "flex"
        THEN UNCHANGED <<sessionVars, viewVars>>
        ELSE /\ lastEvent'.arg = "Escape" => closeGallery
             /\ (lastEvent'.arg = "ArrowRight" /\ galleryNext) => galleryNextHandler
             /\ (lastEvent'.arg = "ArrowLeft" /\ galleryPrev) => galleryPrevHandler
    ]_vars

C8_Witness ==
  /\ lastEvent.type = "keydown"
  /\ lastEvent.arg = "ArrowLeft"
  /\ lastEvent.shown = "flex"
  /\ Len(currentGallery) >= 2
  /\ currentIndex = Len(currentGallery) - 1
  /\ Len(navTrail) = 1

\* C9: the form carries the loading class as long as any submission's request
\* is in flight, and no longer carries it once every request has finished, in
\* every interleaving of submissions and completions.
C9_LoadingTracksRequest ==
  /\ (\E i \in 1..Len(subs) : subs[i].pc = "fetch") => formLoading
  /\ (\A i \in 1..Len(subs) : subs[i].pc = "done") => ~formLoading

\* C10: every finished submission raised exactly one alert and an unfinished
\* one none; ok gives the success message and a form reset; non-ok gives the
\* body's message when it parses and carries a non-empty one, else the generic
\* failure message; a network error gives the generic error message; the form
\* is reset in the ok case only.
C10_Outcomes ==
  /\ [](\A i \in 1..Len(subs) :
          LET s == subs[i]
          IN /\ s.pc # "done" => (s.alerts = <<>> /\ ~s.reset)
             /\ s.pc = "done" =>
                  /\ Len(s.alerts) = 1
                  /\ s.response = "ok" => (s.alerts[1] = SuccessMessage /\ s.reset)
                  /\ s.response = "neterr" => (s.alerts[1] = GenericError /\ ~s.reset)
                  /\ s.response = "nonok" =>
                       /\ ~s.reset
                       /\ s.alerts[1] =
                            IF s.body.parsed /\ ~s.body.null /\ s.body.hasMessage
                               /\ s.body.message # ""
                            THEN s.body.message ELSE GenericFailure)
  /\ [][ (formFields' # formFields /\ lastEvent'.type # "type")
         => /\ lastEvent'.type = "fetchSettled"
            /\ lastEvent'.arg = "ok"
            /\ formFields' = "" ]_vars

C10_Witness ==
  /\ Len(subs) = 2
  /\ subs[1].pc = "done"
  /\ subs[1].response = "nonok"
  /\ subs[1].alerts = <<"Invalid email">>
  /\ subs[2].pc = "done"
  /\ subs[2].response = "ok"
  /\ formFields = ""

IsCertDismiss(ev) ==
  \/ ev.type = "certCloseClick"
  \/ ev.type = "certModalClick" /\ ev.target = "certificate-modal"

CertSessionEmpty ==
  /\ currentCertificateUrl = ""
  /\ currentCertificateTitle = <<>>

\* C11: a dismiss trigger leaves the certificate modal displayed with its
\* state and image source intact and schedules the hide; when the delay has
\* elapsed the modal is hidden, scroll restored, the image source cleared and
\* the session state empty; whenever the modal is hidden the session state is
\* empty; the download control does nothing when the URL is empty.
C11_DelayedHide ==
  /\ [](certDisplay # "block" => CertSessionEmpty)
  /\ [][ \/ IsCertDismiss(lastEvent')
         \/ (lastEvent'.type = "keydown" /\ EscapeClosesCertificate(lastEvent'.arg))
         => /\ UNCHANGED <<certSession, certImgSrc, certDisplay>>
            /\ closeTimers' = closeTimers + 1 ]_vars
  /\ [][ lastEvent'.type = "closeTimer"
         => /\ certDisplay' = "none"
            /\ bodyOverflow' = "auto"
            /\ certImgSrc' = ""
            /\ CertSessionEmpty' ]_vars
  /\ [][ (lastEvent'.type = "downloadClick" /\ currentCertificateUrl = "")
         => UNCHANGED lastDownload ]_vars

\* C12: a click whose target is a certificate thumbnail nested in a gallery
\* card never opens the gallery modal and leaves the gallery session state
\* and content unchanged; a click on the card with another target opens the
\* gallery for the card's category.
C12_ThumbnailExclusion ==
  /\ [][ lastEvent'.type = "thumbnailClick"
         => UNCHANGED <<sessionVars, galleryDisplay, galleryItems>> ]_vars
  /\ [](Qualifies(lastEvent) =>
          /\ galleryDisplay = "flex"
          /\ currentCategory = OpenedCategory(lastEvent)
          /\ currentGallery = Lookup(allGalleries, OpenedCategory(lastEvent)))

C12_Witness ==
  /\ lastEvent.type = "thumbnailClick"
  /\ lastEvent.arg = "thumbWeb"
  /\ ~certReady
  /\ fetchState = "loaded"
  /\ "web" \in DOMAIN allGalleries
  /\ galleryDisplay = "none"

\* the category tag of a filtered item: data-category, else data-project, else
\* data-gallery, else empty
CategoryTag(item) ==
  LET d == ItemDataset(item)
  IN IF d.category # "" THEN d.category
     ELSE IF d.project # "" THEN d.project
     ELSE IF d.gallery # "" THEN d.gallery
     ELSE ""

\* C13: after a click on a filter button with value f an item of the section
\* is visible iff f = "all" or the item's category tag equals f, exactly the
\* clicked button is active, and this depends on the last click only.
C13_FilterResult ==
  \A section \in Sections :
    filterClicks[section] # <<>> =>
      LET btn == filterClicks[section][Len(filterClicks[section])]
          f == ButtonFilter(btn)
      IN /\ \A item \in FilterItems :
              (itemDisplay[section][item] # "none")
                <=> (~f.null /\ (f.value = "all" \/ f.value = CategoryTag(item)))
         /\ activeButtons[section] = {btn}

C13_Witness ==
  /\ filterClicks["software"] = <<"btnAll", "btnWeb">>
  /\ itemDisplay["software"]["itemGallery"] = ""
  /\ itemDisplay["software"]["itemMixed"] = "none"
  /\ activeButtons["software"] = {"btnWeb"}

\* C14: no listener throws, whatever subset of the optional controls is
\* missing from the page.
C14_NoHandlerThrows == ~uncaught

\* a title with each whitespace run turned into one underscore and every
\* other character outside the allowed set dropped
RECURSIVE Sanitized(_, _, _)
Sanitized(t, allowed, inRun) ==
  IF t = <<>> THEN <<>>
  ELSE IF Head(t) \in WhitespaceChars
       THEN (IF inRun THEN <<>> ELSE <<"_">>) \o Sanitized(Tail(t), allowed, TRUE)
       ELSE (IF Head(t) \in allowed THEN <<Head(t)>> ELSE <<>>)
              \o Sanitized(Tail(t), allowed, FALSE)

TitleOrDefault(t) == IF t = <<>> THEN DefaultFileTitle ELSE t

\* C15 as stated: the download file name is the title ("certificate" when
\* empty) with every non-word character stripped and each whitespace run
\* collapsed to one underscore, followed by .jpg.
C15_Original ==
  (lastEvent.type = "downloadClick" /\ currentCertificateUrl # "")
  => lastDownload.download =
       Sanitized(TitleOrDefault(currentCertificateTitle), WordChars, FALSE)
         \o JpgExtension

\* C15 amended: the download file name is the title ("certificate" when
\* empty) with each whitespace run collapsed to one underscore and every
\* character other than word characters, hyphens and dots stripped, followed
\* by .jpg.
C15_DownloadName ==
  (lastEvent.type = "downloadClick" /\ currentCertificateUrl # "")
  => lastDownload.download =
       Sanitized(TitleOrDefault(currentCertificateTitle),
                 WordChars \cup {"-", "."}, FALSE)
         \o JpgExtension

C15_Witness ==
  /\ lastEvent.type = "downloadClick"
  /\ currentCertificateTitle = ExampleTitle
  /\ lastDownload.download =
       <<"A", "W", "S", "_", "C", "e", "r", "t", "i", "f", "i", "e", "d", "_",
         "2", "0", "2", "1", ".", "j", "p", "g">>

\* C16: whenever the gallery modal is visible the page scroll is locked,
\* whatever the certificate modal, its close timer and the generic modals do.
C16_ScrollLocked == galleryDisplay = "flex" => bodyOverflow = "hidden"

\* C17: an open certificate modal is hidden, and its session state cleared,
\* only after a dismiss trigger that came after that open.
C17_OpenUntilDismissed ==
  [][ ( /\ certDisplay = "block"
        /\ \/ certDisplay' # "block"
           \/ currentCertificateUrl' # currentCertificateUrl /\ currentCertificateUrl' = "" )
      => dismissedSinceOpen ]_vars

\* C18: the settling of the manifest fetch changes nothing of the session
\* state, the content and the visibility; a gallery showing the "no items
\* found" message keeps its empty sequence and the message until it is
\* dismissed or a card is clicked.
C18_FetchFrame ==
  [][ /\ lastEvent'.type \in {"manifestLoaded", "manifestFailed"}
         => UNCHANGED <<sessionVars, viewVars>>
      /\ ( /\ galleryDisplay = "flex"
           /\ MessageShown
           /\ ~Qualifies(lastEvent')
           /\ ~IsDismiss(lastEvent') )
         => /\ currentGallery' = <<>>
            /\ UNCHANGED <<galleryItems, galleryDisplay>>
    ]_vars

C18_Witness ==
  /\ lastEvent.type = "manifestLoaded"
  /\ galleryDisplay = "flex"
  /\ MessageShown
  /\ currentGallery = <<>>
  /\ currentCategory \in DOMAIN allGalleries
  /\ Len(allGalleries[currentCategory]) > 0

\* the rendering of the current item, as built or after its image failed
CurrentItemViews ==
  LET w == Wrapper(currentGallery[currentIndex + 1], currentCategory)
  IN IF w.children[1].tag = "img" THEN {w, handleImageError(w)} ELSE {w}

\* C19: while the gallery modal is visible the container holds exactly one
\* rendered item, that of currentGallery[currentIndex], when currentGallery is
\* non-empty, and the "no items found" message for currentCategory when it is
\* empty; while the modal is hidden the container is empty and the session
\* state empty/zero.
C19_ViewConsistent ==
  IF galleryDisplay = "flex"
  THEN IF Len(currentGallery) > 0
       THEN /\ (currentIndex + 1) \in DOMAIN currentGallery
            /\ Len(galleryItems) = 1
            /\ galleryItems[1] \in CurrentItemViews
       ELSE galleryItems = NoItemsMessage(currentCategory)
  ELSE /\ galleryItems = <<>>
       /\ currentGallery = <<>>
       /\ currentIndex = 0
       /\ currentCategory = ""

C19_Witness ==
  /\ galleryDisplay = "flex"
  /\ lastEvent.type = "nextClick"
  /\ Len(currentGallery) >= 2
  /\ currentIndex = 1
  /\ galleryItems = <<Wrapper(currentGallery[2], currentCategory)>>

====
